---- MODULE Spec2Model ----
(***************************************************************************)
(* sentry_github.plugin: the GitHub issue plugin of Sentry.                *)
(*                                                                         *)
(* The state is the per-project option store written by the configuration  *)
(* form (GitHubOptionsForm) and the outcome of the bridge operation the    *)
(* host is currently handling (GitHubPlugin.create_issue,                  *)
(* get_allowed_assignees, get_new_issue_form).  Text that the code slices  *)
(* or concatenates (option values, URLs) is a sequence of one-character    *)
(* strings; a Python exception is an outcome "raise" with its type and     *)
(* message.  The github_url option is not read by any operation modelled   *)
(* here and is left out of the option store.                               *)
(***************************************************************************)
EXTENDS Integers, Sequences, FiniteSets, TLC

VARIABLES options, ret

vars == <<options, ret>>

(* ------------------------------ bounds --------------------------------- *)

\* longest text typed into a field of the configuration form
MaxLen == 2

\* longest JSON array the remote endpoint answers with
MaxUsers == 2

(* ------------------------------- text ---------------------------------- *)

\* the characters option values are typed from
Chars == {"/", "a"}

Strings == UNION {[1..k -> Chars] : k \in 0..MaxLen}

\* a required CharField rejects the empty value
NonEmptyStrings == Strings \ {<<>>}

\* Python None as an option value (an option never saved)
None == <<"None">>

\* '%s' % x
str(x) == IF x = None THEN <<"N", "o", "n", "e">> ELSE x

\* bool(x) of an option value: None and '' are falsy
truthy(x) == x # None /\ x # <<>>

RECURSIVE rstrip(_, _)
\* s.rstrip(ch)
rstrip(s, ch) ==
    IF s # <<>> /\ s[Len(s)] = ch THEN rstrip(SubSeq(s, 1, Len(s) - 1), ch) ELSE s

\* 'https://api.github.com'
DefaultEndpoint ==
    <<"h", "t", "t", "p", "s", ":", "/", "/", "a", "p", "i", ".",
      "g", "i", "t", "h", "u", "b", ".", "c", "o", "m">>

\* the path segments make_api_request is called with
Assignees == <<"a", "s", "s", "i", "g", "n", "e", "e", "s">>

Issues == <<"i", "s", "s", "u", "e", "s">>

(* --------------------------- configuration ----------------------------- *)

\* GitHubOptionsForm.clean_endpoint
clean_endpoint(data) == rstrip(data, "/")

\* IssuePlugin.get_option(key, project) over the one project modelled
get_option(key) == options[key]

\* GitHubPlugin.is_configured
is_configured == truthy(get_option("repo"))

\* '%s/repos/%s/%s' % (endpoint, repo, github_api)
format_url(endpoint, repo, github_api) ==
    str(endpoint) \o <<"/", "r", "e", "p", "o", "s", "/">> \o str(repo)
        \o <<"/">> \o str(github_api)

\* the endpoint make_api_request uses: the option, or the default when falsy
request_endpoint ==
    IF truthy(get_option("endpoint")) THEN get_option("endpoint") ELSE DefaultEndpoint

\* the url make_api_request builds for a path segment
request_url(github_api) == format_url(request_endpoint, get_option("repo"), github_api)

(* ------------------------------- JSON ---------------------------------- *)

\* values json.loads can return
JNull == [t |-> "null", v |-> 0]

JNum(n) == [t |-> "num", v |-> n]

JStr(s) == [t |-> "str", v |-> s]

JObj(f) == [t |-> "obj", v |-> f]

JArr(s) == [t |-> "arr", v |-> s]

\* the objects the remote endpoint answers with; <<>> is the object without keys
Objects ==
    { JObj(<<>>),
      JObj([message |-> JStr("Validation Failed")]),
      JObj([number |-> JNum(42)]),
      JObj([number |-> JNum(7), message |-> JStr("Created")]),
      JObj([login |-> JStr("alice")]),
      JObj([login |-> JStr("bob")]) }

\* the elements of the arrays the remote endpoint answers with
Elements ==
    { JObj([login |-> JStr("alice")]), JObj([login |-> JStr("bob")]), JObj(<<>>) }

Arrays == { JArr(s) : s \in UNION {[1..k -> Elements] : k \in 0..MaxUsers} }

Scalars == { JNull, JNum(42), JStr(""), JStr("x") }

JsonValues == Scalars \cup Objects \cup Arrays

\* a response body: text that is JSON for `value`, or text that is not JSON
InvalidBody == [valid |-> FALSE, value |-> JNull]

Bodies == {InvalidBody} \cup { [valid |-> TRUE, value |-> j] : j \in JsonValues }

(* ---------------------------- exceptions ------------------------------- *)

\* the text of an exception: a template and the value substituted for its %s
Msg(template, arg) == [template |-> template, arg |-> arg]

Exc(type, message) == [type |-> type, message |-> message]

NoExc == Exc("", Msg("", JNull))

\* forms.ValidationError(message)
ValidationError(message) == Exc("ValidationError", message)

NotAuthenticatedMsg == Msg("You have not yet associated GitHub with your account.", JNull)

\* _('Error communicating with GitHub: %s') % (msg,)
CommunicationMsg(msg) == Msg("Error communicating with GitHub: %s", msg)

\* unicode(e)
unicode(e) == e.message.arg

\* json.loads(body): the value, or ValueError for text that is not JSON
json_loads(body) ==
    IF body.valid
    THEN [ok |-> TRUE, value |-> body.value, exc |-> NoExc]
    ELSE [ok |-> FALSE, value |-> JNull,
          exc |-> Exc("ValueError", Msg("%s", JStr("No JSON object could be decoded")))]

\* x[key] for a string key: a dict yields the value or KeyError, anything else TypeError
getitem(x, key) ==
    IF x.t = "obj"
    THEN IF key \in DOMAIN x.v
         THEN [ok |-> TRUE, value |-> x.v[key], exc |-> NoExc]
         ELSE [ok |-> FALSE, value |-> JNull, exc |-> Exc("KeyError", Msg("%s", JStr(key)))]
    ELSE [ok |-> FALSE, value |-> JNull, exc |-> Exc("TypeError", Msg("%s", JStr(x.t)))]

(* ------------------------- the remote endpoint ------------------------- *)

\* get_auth_for_user(user): None (linked = FALSE) or a credential with its token
NoAuth == [linked |-> FALSE, access_token |-> ""]

Auths == { NoAuth, [linked |-> TRUE, access_token |-> "t0k3n"] }

Statuses == {201, 399, 400, 422}

\* what safe_urlopen / safe_urlread do for the request: either raises
\* requests.RequestException, or the response is read with a status and a body
Remotes ==
    { [transport |-> tr, error |-> "timed out", status |-> 201, body |-> InvalidBody] :
        tr \in {"open_fails", "read_fails"} }
    \cup
    { [transport |-> "ok", error |-> "", status |-> st, body |-> b] :
        st \in Statuses, b \in Bodies }

\* form_data of the new-issue form; assignee is an optional field
FormDatas ==
    { [title |-> "boom", description |-> "trace"],
      [title |-> "boom", description |-> "trace", assignee |-> ""],
      [title |-> "boom", description |-> "trace", assignee |-> "alice"] }

\* form_data.get(key)
dict_get(d, key) == IF key \in DOMAIN d THEN JStr(d[key]) ELSE JNull

(* ---------------------------- GitHubPlugin ----------------------------- *)

\* how a call ends: it returns (choices for the assignee operations, issue_id
\* for create_issue) or raises exc; sent is the requests handed to safe_urlopen
Return(sent, choices, issue_id) ==
    [outcome |-> "return", exc |-> NoExc, sent |-> sent,
     choices |-> choices, issue_id |-> issue_id]

Raise(sent, exc) ==
    [outcome |-> "raise", exc |-> exc, sent |-> sent,
     choices |-> <<>>, issue_id |-> JNull]

\* the status check with its bound one too high: status 400 passes as success
is_error_status_above_400(status_code) == status_code > 400

\* the status check with >= for >: status 399 is taken for an error
is_error_status_from_399(status_code) == status_code >= 399

\* req.status_code > 399
is_error_status(status_code) == status_code > 399

\* make_api_request without its check of the credential: the request goes out
\* with an empty token
make_api_request_unchecked(auth, github_api, json_data, remote) ==
    LET req == [url |-> request_url(github_api),
                json |-> json_data,
                headers |-> [Authorization |-> <<"token ", auth.access_token>>]]
    IN  IF remote.transport = "ok"
        THEN [raised |-> FALSE, exc |-> NoExc, sent |-> <<req>>]
        ELSE [raised |-> TRUE,
              exc |-> Exc("RequestException", Msg("%s", JStr(remote.error))),
              sent |-> <<req>>]

\* make_api_request sending the request a second time after a transport failure
make_api_request_retry(auth, github_api, json_data, remote) ==
    IF ~auth.linked
    THEN [raised |-> TRUE, exc |-> ValidationError(NotAuthenticatedMsg), sent |-> <<>>]
    ELSE LET req == [url |-> request_url(github_api),
                     json |-> json_data,
                     headers |-> [Authorization |-> <<"token ", auth.access_token>>]]
         IN  IF remote.transport = "ok"
             THEN [raised |-> FALSE, exc |-> NoExc, sent |-> <<req>>]
             ELSE [raised |-> TRUE,
                   exc |-> Exc("RequestException", Msg("%s", JStr(remote.error))),
                   sent |-> <<req, req>>]

\* GitHubPlugin.make_api_request followed by safe_urlread(req): raises
\* ValidationError before any request when the user has no credential,
\* otherwise hands one request to safe_urlopen
make_api_request(auth, github_api, json_data, remote) ==
    IF ~auth.linked
    THEN [raised |-> TRUE, exc |-> ValidationError(NotAuthenticatedMsg), sent |-> <<>>]
    ELSE LET req == [url |-> request_url(github_api),
                     json |-> json_data,
                     headers |-> [Authorization |-> <<"token ", auth.access_token>>]]
         IN  IF remote.transport = "ok"
             THEN [raised |-> FALSE, exc |-> NoExc, sent |-> <<req>>]
             ELSE [raised |-> TRUE,
                   exc |-> Exc("RequestException", Msg("%s", JStr(remote.error))),
                   sent |-> <<req>>]

RECURSIVE login_pairs_reversed(_, _)
\* the pairs collected in the reverse of the response's order
login_pairs_reversed(elems, i) ==
    IF i > Len(elems)
    THEN [ok |-> TRUE, value |-> <<>>, exc |-> NoExc]
    ELSE LET login == getitem(elems[i], "login")
             rest == login_pairs_reversed(elems, i + 1)
         IN  IF ~login.ok THEN login
             ELSE IF ~rest.ok THEN rest
             ELSE [ok |-> TRUE,
                   value |-> rest.value \o <<<<login.value.v, login.value.v>>>>,
                   exc |-> NoExc]

RECURSIVE login_pairs(_, _)
\* tuple((u['login'], u['login']) for u in json_resp) over a list, from element i;
\* the first element without 'login' ends it with KeyError
login_pairs(elems, i) ==
    IF i > Len(elems)
    THEN [ok |-> TRUE, value |-> <<>>, exc |-> NoExc]
    ELSE LET login == getitem(elems[i], "login")
             rest == login_pairs(elems, i + 1)
         IN  IF ~login.ok THEN login
             ELSE IF ~rest.ok THEN rest
             ELSE [ok |-> TRUE,
                   value |-> <<<<login.value.v, login.value.v>>>> \o rest.value,
                   exc |-> NoExc]

\* tuple((u['login'], u['login']) for u in json_resp): a list yields its
\* elements, a dict its keys and a string its characters (strings, on which
\* ['login'] is a TypeError), and nothing else can be iterated
users(json_resp) ==
    CASE json_resp.t = "arr" -> login_pairs(json_resp.v, 1)
      [] json_resp.t = "obj" ->
            IF DOMAIN json_resp.v = {}
            THEN [ok |-> TRUE, value |-> <<>>, exc |-> NoExc]
            ELSE [ok |-> FALSE, value |-> <<>>, exc |-> Exc("TypeError", Msg("%s", JStr("str")))]
      [] json_resp.t = "str" ->
            IF json_resp.v = ""
            THEN [ok |-> TRUE, value |-> <<>>, exc |-> NoExc]
            ELSE [ok |-> FALSE, value |-> <<>>, exc |-> Exc("TypeError", Msg("%s", JStr("str")))]
      [] OTHER ->
            [ok |-> FALSE, value |-> <<>>, exc |-> Exc("TypeError", Msg("%s", JStr(json_resp.t)))]

\* ('', 'Unassigned')
Unassigned == <<"", "Unassigned">>

\* GitHubPlugin.get_allowed_assignees
get_allowed_assignees(auth, remote) ==
    LET req == make_api_request(auth, Assignees, None, remote)
        parsed == json_loads(remote.body)
        pairs == users(parsed.value)
    IN  IF req.raised
        THEN IF req.exc.type = "RequestException"
             THEN Return(req.sent, <<>>, JNull)
             ELSE Raise(req.sent, req.exc)
        ELSE IF ~parsed.ok THEN Return(req.sent, <<>>, JNull)
        ELSE IF is_error_status(remote.status) THEN Return(req.sent, <<>>, JNull)
        ELSE IF ~pairs.ok THEN Raise(req.sent, pairs.exc)
        ELSE Return(req.sent, <<Unassigned>> \o pairs.value, JNull)

\* GitHubPlugin.get_new_issue_form: the form's assignee choices are what
\* get_allowed_assignees returns; what it raises is not caught
get_new_issue_form(auth, remote) == get_allowed_assignees(auth, remote)

\* create_issue checking the status before it parses the body
create_issue_status_first(auth, form_data, remote) ==
    LET json_data == [title |-> JStr(form_data["title"]),
                      body |-> JStr(form_data["description"]),
                      assignee |-> dict_get(form_data, "assignee")]
        req == make_api_request(auth, Issues, json_data, remote)
        parsed == json_loads(remote.body)
        message == getitem(parsed.value, "message")
        number == getitem(parsed.value, "number")
    IN  IF req.raised
        THEN IF req.exc.type = "RequestException"
             THEN Raise(req.sent, ValidationError(CommunicationMsg(unicode(req.exc))))
             ELSE Raise(req.sent, req.exc)
        ELSE IF is_error_status(remote.status)
             THEN IF message.ok
                  THEN Raise(req.sent, ValidationError(Msg("%s", message.value)))
                  ELSE Raise(req.sent, message.exc)
        ELSE IF ~parsed.ok
             THEN Raise(req.sent, ValidationError(CommunicationMsg(unicode(parsed.exc))))
        ELSE IF number.ok THEN Return(req.sent, <<>>, number.value)
        ELSE Raise(req.sent, number.exc)

\* GitHubPlugin.create_issue
create_issue(auth, form_data, remote) ==
    LET json_data == [title |-> JStr(form_data["title"]),
                      body |-> JStr(form_data["description"]),
                      assignee |-> dict_get(form_data, "assignee")]
        req == make_api_request(auth, Issues, json_data, remote)
        parsed == json_loads(remote.body)
        message == getitem(parsed.value, "message")
        number == getitem(parsed.value, "number")
    IN  IF req.raised
        THEN IF req.exc.type = "RequestException"
             THEN Raise(req.sent, ValidationError(CommunicationMsg(unicode(req.exc))))
             ELSE Raise(req.sent, req.exc)
        ELSE IF ~parsed.ok
             THEN Raise(req.sent, ValidationError(CommunicationMsg(unicode(parsed.exc))))
        ELSE IF is_error_status(remote.status)
             THEN IF message.ok
                  THEN Raise(req.sent, ValidationError(Msg("%s", message.value)))
                  ELSE Raise(req.sent, message.exc)
        ELSE IF number.ok THEN Return(req.sent, <<>>, number.value)
        ELSE Raise(req.sent, number.exc)

(* ------------------------------ the state ------------------------------ *)

\* the call the host is handling: the operation, its inputs and how it ended
Call(op, auth, form_data, remote, end) ==
    [op |-> op, auth |-> auth, form_data |-> form_data, remote |-> remote,
     outcome |-> end.outcome, exc |-> end.exc, sent |-> end.sent,
     choices |-> end.choices, issue_id |-> end.issue_id]

NoFormData == [title |-> "", description |-> ""]

NoRemote == [transport |-> "none", error |-> "", status |-> 0, body |-> InvalidBody]

\* no operation in progress
NoCall == Call("none", NoAuth, NoFormData, NoRemote, Return(<<>>, <<>>, JNull))

Init ==
    /\ options = [repo |-> None, endpoint |-> None]
    /\ ret = NoCall

\* the configuration form is submitted and its cleaned data saved as the
\* project's options
configure ==
    /\ ret.op = "none"
    /\ \E repo \in NonEmptyStrings, endpoint \in NonEmptyStrings :
          options' = [repo |-> repo, endpoint |-> clean_endpoint(endpoint)]
    /\ UNCHANGED ret

GetAllowedAssignees ==
    /\ ret.op = "none"
    /\ \E auth \in Auths, remote \in Remotes :
          ret' = Call("get_allowed_assignees", auth, NoFormData, remote,
                      get_allowed_assignees(auth, remote))
    /\ UNCHANGED options

GetNewIssueForm ==
    /\ ret.op = "none"
    /\ \E auth \in Auths, remote \in Remotes :
          ret' = Call("get_new_issue_form", auth, NoFormData, remote,
                      get_new_issue_form(auth, remote))
    /\ UNCHANGED options

CreateIssue ==
    /\ ret.op = "none"
    /\ \E auth \in Auths, form_data \in FormDatas, remote \in Remotes :
          ret' = Call("create_issue", auth, form_data, remote,
                      create_issue(auth, form_data, remote))
    /\ UNCHANGED options

\* the host answers its request; nothing of the call outlives it
respond ==
    /\ ret.op # "none"
    /\ ret' = NoCall
    /\ UNCHANGED options

Next ==
    \/ configure
    \/ GetAllowedAssignees
    \/ GetNewIssueForm
    \/ CreateIssue
    \/ respond

Spec == Init /\ [][Next]_vars

(* ------------------------------- claims -------------------------------- *)

\* the call in progress lists assignees (directly or for the new-issue form)
ListsAssignees == ret.op \in {"get_allowed_assignees", "get_new_issue_form"}

\* the user has a credential and the response was read
Answered == ret.auth.linked /\ ret.remote.transport = "ok"

\* the response body is JSON
Parsed == ret.remote.body.valid

\* the parsed body is an object with the field
HasField(key) ==
    /\ Parsed
    /\ ret.remote.body.value.t = "obj"
    /\ key \in DOMAIN ret.remote.body.value.v

Field(key) == ret.remote.body.value.v[key]

\* the parsed body is an array of objects that each have a login
IsUserList ==
    /\ Parsed
    /\ ret.remote.body.value.t = "arr"
    /\ \A i \in 1..Len(ret.remote.body.value.v) :
          "login" \in DOMAIN ret.remote.body.value.v[i].v

UserList == ret.remote.body.value.v

\* C1: listing assignees never raises, whatever fails; without a credential it
\* returns the empty result.
C1_AssigneesNeverRaise ==
    (ListsAssignees /\ is_configured) =>
        /\ ret.outcome = "return"
        /\ ~ret.auth.linked => ret.choices = <<>>

\* C2: create_issue for a user without credential raises the ValidationError
\* 'You have not yet associated GitHub with your account.', whatever the
\* options, the form data and the remote endpoint's answer are.
C2_NoCredentialNotAuthenticated ==
    (ret.op = "create_issue" /\ ~ret.auth.linked) =>
        /\ ret.outcome = "raise"
        /\ ret.exc = ValidationError(NotAuthenticatedMsg)

\* C2 witness: no credential, although the endpoint would have created the issue
C2_Witness ==
    /\ ret.op = "create_issue"
    /\ ~ret.auth.linked
    /\ ret.remote.transport = "ok"
    /\ ret.remote.status = 201
    /\ HasField("number")
    /\ "assignee" \in DOMAIN ret.form_data
    /\ ret.exc = ValidationError(NotAuthenticatedMsg)

\* C3: create_issue with a credential raises ValidationError 'Error
\* communicating with GitHub: <msg>' with the underlying message when the
\* outbound call raises a transport failure or the body is not JSON, the latter
\* whatever the HTTP status is.
C3_CommunicationError ==
    (ret.op = "create_issue" /\ ret.auth.linked) =>
        /\ ret.remote.transport # "ok" =>
              /\ ret.outcome = "raise"
              /\ ret.exc = ValidationError(CommunicationMsg(JStr(ret.remote.error)))
        /\ (ret.remote.transport = "ok" /\ ~Parsed) =>
              /\ ret.outcome = "raise"
              /\ ret.exc = ValidationError(CommunicationMsg(unicode(json_loads(InvalidBody).exc)))

\* C3 witness: an error status with a body that is not JSON
C3_Witness ==
    /\ ret.op = "create_issue"
    /\ Answered
    /\ ~Parsed
    /\ ret.remote.status = 422
    /\ ret.exc.message.template = "Error communicating with GitHub: %s"

\* C4: create_issue with a credential and a parsed response of status > 399
\* raises a ValidationError whose text is the body's message field.
C4_ErrorStatusRemoteRejected ==
    (ret.op = "create_issue" /\ is_configured /\ Answered /\ Parsed
       /\ ret.remote.status > 399) =>
        /\ ret.outcome = "raise"
        /\ ret.exc.type = "ValidationError"
        /\ HasField("message") => ret.exc.message = Msg("%s", Field("message"))

\* C5 as claimed: create_issue returns an id iff the user has a credential,
\* the call succeeded, the body parsed and the status is <= 399, and the id is
\* the body's number field.
C5_IdIffParsedSuccess ==
    (ret.op = "create_issue" /\ is_configured) =>
        /\ ret.outcome = "return" <=> (Answered /\ Parsed /\ ret.remote.status <= 399)
        /\ ret.outcome = "return" => (HasField("number") /\ ret.issue_id = Field("number"))

\* C5 as amended: create_issue returns an id iff the user has a credential, the
\* call succeeded, the status is <= 399 and the body parsed to an object with a
\* number field; the id is that field, and in every other case the operation
\* raises and returns no id.
C5_IdIffNumberedSuccess ==
    ret.op = "create_issue" =>
        /\ ret.outcome = "return" <=>
              (Answered /\ HasField("number") /\ ret.remote.status <= 399)
        /\ ret.outcome = "return" => ret.issue_id = Field("number")
        /\ ret.outcome # "return" => (ret.outcome = "raise" /\ ret.issue_id = JNull)

\* C5 witness: status 201 with {"number": 42} returns 42
C5_Witness ==
    /\ ret.op = "create_issue"
    /\ Answered
    /\ ret.remote.status = 201
    /\ ret.remote.body.value = JObj([number |-> JNum(42)])
    /\ ret.outcome = "return"
    /\ ret.issue_id = JNum(42)

\* C6: listing assignees on success (credential, response read, status <= 399,
\* body an array of users) returns ('', 'Unassigned') followed by one
\* (login, login) pair per user of the response, in the response's order.
C6_SentinelThenUsersInOrder ==
    (ListsAssignees /\ Answered /\ IsUserList /\ ret.remote.status <= 399) =>
        /\ ret.outcome = "return"
        /\ Len(ret.choices) = 1 + Len(UserList)
        /\ ret.choices[1] = Unassigned
        /\ \A i \in 1..Len(UserList) :
              ret.choices[i + 1] = <<UserList[i].v["login"].v, UserList[i].v["login"].v>>

\* C6 witness: [{"login": "alice"}, {"login": "bob"}] is listed in that order
C6_Witness ==
    /\ ret.op = "get_allowed_assignees"
    /\ Answered
    /\ ret.remote.status <= 399
    /\ ret.remote.body.value =
          JArr(<<JObj([login |-> JStr("alice")]), JObj([login |-> JStr("bob")])>>)
    /\ ret.choices = <<Unassigned, <<"alice", "alice">>, <<"bob", "bob">>>>

\* C7: listing assignees with a credential returns the empty sequence, without
\* the sentinel, and does not raise when the outbound call raises a transport
\* failure or the status is > 399, also when the error body is JSON.
C7_FailureGivesEmpty ==
    (ListsAssignees /\ ret.auth.linked
       /\ (ret.remote.transport # "ok" \/ ret.remote.status > 399)) =>
        /\ ret.outcome = "return"
        /\ ret.choices = <<>>

\* C7 witness: an error status whose body is a well-formed user list
C7_Witness ==
    /\ ret.op = "get_allowed_assignees"
    /\ Answered
    /\ ret.remote.status > 399
    /\ IsUserList
    /\ Len(UserList) > 0
    /\ ret.outcome = "return"
    /\ ret.choices = <<>>

\* C8: listing assignees returns the empty sequence whenever the body is not
\* an array of objects with a login field, be it no JSON at all or JSON of
\* another shape received with status <= 399.
C8_WrongShapeGivesEmpty ==
    (ListsAssignees /\ is_configured /\ Answered /\ ~IsUserList) =>
        /\ ret.outcome = "return"
        /\ ret.choices = <<>>

\* the path segment the operation in progress requests
Segment == IF ret.op = "create_issue" THEN Issues ELSE Assignees

\* no '//' in the url from the last character of the endpoint on
NoDoubleSlashAfter(url, endpoint) ==
    \A i \in Len(endpoint)..(Len(url) - 1) : ~(url[i] = "/" /\ url[i + 1] = "/")

\* C9: for every project configuration the url requested is
\* '{endpoint}/repos/{repo}/{segment}' with the endpoint's trailing slashes
\* stripped (the default endpoint when unset or empty) and no double slash at
\* the joins of endpoint, repo and segment.
C9_NoDoubleSlashAtJoins ==
    (ret.op # "none" /\ ret.sent # <<>> /\ is_configured) =>
        /\ ~truthy(get_option("endpoint")) =>
              ret.sent[1].url = format_url(DefaultEndpoint, get_option("repo"), Segment)
        /\ truthy(get_option("endpoint")) =>
              ret.sent[1].url =
                  format_url(rstrip(get_option("endpoint"), "/"), get_option("repo"), Segment)
        /\ NoDoubleSlashAfter(ret.sent[1].url, request_endpoint)

\* C10: a bridge operation hands at most one request to safe_urlopen before it
\* returns or raises, and none when the user has no credential; no failure is
\* followed by a second request.
C10_AtMostOneRequest ==
    ret.op # "none" =>
        /\ Len(ret.sent) <= 1
        /\ ~ret.auth.linked => ret.sent = <<>>

\* C10 witness: a transport failure during create_issue, after its one request
C10_Witness ==
    /\ ret.op = "create_issue"
    /\ ret.auth.linked
    /\ ret.remote.transport = "read_fails"
    /\ ret.outcome = "raise"
    /\ Len(ret.sent) = 1

====
